---- MODULE Spec2Model ----
(***************************************************************************)
(* Model of the AI-guided crawler (src/src/crawler): the page-node graph   *)
(* and OpenSet of models.py, the driver loop and the scoring integration   *)
(* of ai_crawler.py, and the exhaustion handlers of dynamic_loading.py.    *)
(*                                                                         *)
(* Scores are kept in tenths (1.0 is 10, 9.0 is 90) so that the            *)
(* comparisons of the source stay exact; an average is kept as the pair    *)
(* <<sum, count>> and compared by cross-multiplication.                    *)
(***************************************************************************)
EXTENDS Integers, Sequences, FiniteSets, TLC

\* ---------------------------------------------------------------- bounds
NumUrls == 2
MaxLinks == 2
MaxPages == 2
MaxTriggers == 2
MaxContainers == 2
MaxZones == 1

\* ------------------------------------------------------ program constants
LowThreshold == 10
HighThreshold == 90
ProductCheckThreshold == 80
max_retries == 3
CheckAndExhaustParams == 2
CheckAndExhaustArgs == 3
ExtractFromHtmlParams == 4
ExtractFromHtmlArgs == 5
pagination_max_pages == 10
max_clicks == 20
max_scrolls == 10
max_no_change == 3
max_attempts == 15

\* ------------------------------------------------------------ vocabulary
base_url == 0
Urls == 0..NumUrls
LinkUrls == 1..NumUrls
NoName == ""
Names == {"P"}
NoId == -1
NoScore == -1
\* outcome of a call that may raise: the exception, or the value returned
RAISE == [raised |-> TRUE, items |-> <<>>]
Returned(items) == [raised |-> FALSE, items |-> items]
None == 0

\* relative_path = path + query of the absolute URL; the fragment is not part
\* of it, so URLs 1 and 2 (same page, different fragments) share path 1.
RelativePath(u) == IF u = base_url THEN 0 ELSE (u + 1) \div 2
Paths == {RelativePath(u) : u \in Urls}

VARIABLES
  max_pages,        \* AIGuidedCrawler.max_pages (constructor argument)
  nodes,            \* WebsiteNode objects, by identity (index)
  url_to_node,      \* AIGuidedCrawler.url_to_node; None where absent
  open_set,         \* OpenSet: [heap, counter, node_set]
  products,         \* AIGuidedCrawler.products
  discovered_urls,  \* AIGuidedCrawler.discovered_urls
  pages_processed,  \* local of crawl
  pc,               \* position of crawl / process_node
  current_node,     \* node popped by crawl
  calls,            \* boundaries called by the running process_node
  failure,          \* boundary failures met by the running process_node
  \* locals of process_node, followed statement by statement in SpecPage
  children_info,    \* batch returned by extract_link_info
  attempt,          \* loop variable of _get_ai_scores_with_retry
  ai_calls,         \* calls of send_ai_prompt made for the batch
  ai_response,      \* last response of the scorer for the batch
  scores,           \* list returned by _get_ai_scores_with_retry
  idx,              \* position of the loop of _process_scored_links
  skipped_count, product_count, queued_count,
  revealed_urls     \* URLs that exhausting the page's dynamic content shows

crawler == <<max_pages, nodes, url_to_node, open_set, products,
             discovered_urls, pages_processed, pc, current_node, calls, failure>>
locals == <<children_info, attempt, ai_calls, ai_response, scores, idx,
            skipped_count, product_count, queued_count, revealed_urls>>
\* DynamicLoadingHandler.check_and_exhaust_dynamic_loading and its handlers
VARIABLES
  dyn_pc,           \* position in check_and_exhaust_dynamic_loading
  dynamic_elements, \* trigger types returned by _check_with_ai
  trig_idx,         \* position of the loop over dynamic_elements
  current_element,  \* whether _find_element_by_target found the element
  page_count,       \* local of _handle_pagination
  click_count,      \* local of _handle_load_more
  clicks,           \* click() calls of the running handler
  containers,       \* number of scroll containers found
  trigger_zones,    \* number of trigger zones found
  cont_idx,         \* position of the loops of _exhaust_scroll_with_strategies
  scroll_attempt,   \* `attempt` of _exhaust_scroll_with_strategies
  scroll_count, no_change_count,  \* locals of _exhaust_container_scroll
  scrolls,          \* scroll actions made on the current container
  links_found,      \* len(additional_links) of the running handler
  container_links,  \* len(additional_links) of _exhaust_container_scroll
  additional_links  \* len(additional_links) of the enclosing function

dyn == <<dyn_pc, dynamic_elements, trig_idx, current_element, page_count,
         click_count, clicks, containers, trigger_zones, cont_idx,
         scroll_attempt, scroll_count, no_change_count, scrolls, links_found,
         container_links, additional_links>>

vars == <<crawler, locals, dyn>>

\* ------------------------------------------------------------ WebsiteNode
WebsiteNode(url, path, parent, ns) ==
  [url |-> url, path |-> path, parent |-> parent,
   children |-> [p \in Paths |-> None],
   is_explored |-> FALSE,
   depth |-> IF parent = None THEN 0 ELSE ns[parent].depth + 1,
   score |-> 0, product_name |-> NoName]

RECURSIVE ChainSum(_, _)
ChainSum(ns, n) ==
  IF n = None THEN 0
  ELSE (IF ns[n].score > 0 THEN ns[n].score ELSE 0) + ChainSum(ns, ns[n].parent)

RECURSIVE ChainCount(_, _)
ChainCount(ns, n) ==
  IF n = None THEN 0
  ELSE (IF ns[n].score > 0 THEN 1 ELSE 0) + ChainCount(ns, ns[n].parent)

\* get_average_score as <<sum, count>>; 0.0 is <<0, 1>>
get_average_score(ns, n) ==
  IF ChainCount(ns, n) = 0 THEN <<0, 1>>
  ELSE <<ChainSum(ns, n), ChainCount(ns, n)>>

\* ---------------------------------------------------------------- OpenSet
EmptyOpenSet == [heap |-> {}, counter |-> 0, node_set |-> {}]

AvgGreater(a, b) == a.avg[1] * b.avg[2] > b.avg[1] * a.avg[2]
AvgEqual(a, b) == a.avg[1] * b.avg[2] = b.avg[1] * a.avg[2]

\* a heap whose ties go to the entry pushed last
EntryLessLifo(a, b) ==
  AvgGreater(a, b) \/ (AvgEqual(a, b) /\ a.counter > b.counter)

\* order of the heap tuples (-avg_score, counter, node)
EntryLess(a, b) ==
  AvgGreater(a, b) \/ (AvgEqual(a, b) /\ a.counter < b.counter)

\* heapq.heappop returns the smallest tuple
HeapMin(h) == CHOOSE e \in h : \A f \in h \ {e} : EntryLess(e, f)

\* an add without the membership test
OpenSetAddAgain(os, ns, n) ==
  [heap |-> os.heap \cup
            {[avg |-> get_average_score(ns, n), counter |-> os.counter, node |-> n]},
   counter |-> os.counter + 1,
   node_set |-> os.node_set \cup {n}]

OpenSetAdd(os, ns, n) ==
  IF n \in os.node_set THEN os
  ELSE [heap |-> os.heap \cup
                 {[avg |-> get_average_score(ns, n), counter |-> os.counter, node |-> n]},
        counter |-> os.counter + 1,
        node_set |-> os.node_set \cup {n}]

\* a pop that leaves the popped entry in the set
OpenSetPeek(os) ==
  IF os.heap = {} THEN [node |-> None, os |-> os]
  ELSE [node |-> HeapMin(os.heap).node, os |-> os]

RECURSIVE OpenSetPop(_)
OpenSetPop(os) ==
  IF os.heap = {} THEN [node |-> None, os |-> os]
  ELSE LET e == HeapMin(os.heap)
           rest == [os EXCEPT !.heap = os.heap \ {e}]
       IN IF e.node \in os.node_set
          THEN [node |-> e.node,
                os |-> [rest EXCEPT !.node_set = os.node_set \ {e.node}]]
          ELSE OpenSetPop(rest)

is_empty(os) == Cardinality(os.node_set) = 0

\* ------------------------------------------------- candidate extraction
BoundedSeq(S, n) == UNION {[1..k -> S] : k \in 0..n}

\* _create_link_info: None (FALSE) for a URL already in discovered_urls
CreateLinkInfoAccepts(href, disc) == href \notin disc

\* a numbering loop that never advances link_id
RECURSIVE ExtractFromSameId(_, _, _, _)
ExtractFromSameId(hrefs, k, link_id, disc) ==
  IF k > Len(hrefs) THEN <<>>
  ELSE IF CreateLinkInfoAccepts(hrefs[k], disc)
       THEN <<[id |-> link_id, url |-> hrefs[k],
               relative_path |-> RelativePath(hrefs[k])]>>
            \o ExtractFromSameId(hrefs, k + 1, link_id, disc)
       ELSE ExtractFromSameId(hrefs, k + 1, link_id, disc)

\* the numbering loop of extract_link_info / extract_link_info_from_html:
\* link_id advances only for the links that are kept
RECURSIVE ExtractFrom(_, _, _, _)
ExtractFrom(hrefs, k, link_id, disc) ==
  IF k > Len(hrefs) THEN <<>>
  ELSE IF CreateLinkInfoAccepts(hrefs[k], disc)
       THEN <<[id |-> link_id, url |-> hrefs[k],
               relative_path |-> RelativePath(hrefs[k])]>>
            \o ExtractFrom(hrefs, k + 1, link_id + 1, disc)
       ELSE ExtractFrom(hrefs, k + 1, link_id, disc)

\* extract_link_info: any exception (fetch, HTTP status, parsing) gives []
extract_link_info(outcome, hrefs, disc) ==
  IF outcome = "ok" THEN ExtractFrom(hrefs, 1, 0, disc) ELSE <<>>

\* ---------------------------------------------------------------- scorer
ScoreItem(id, score, name) == [id |-> id, score |-> score, productName |-> name]
DefaultScore(i) == ScoreItem(i, 0, NoName)
DefaultScores(n) == [k \in 1..n |-> DefaultScore(k - 1)]

HasId(resp, i) == \E k \in 1..Len(resp) : resp[k].id = i
\* id_to_score[i]: a later element with the same id overwrites an earlier one
LastWithId(resp, i) ==
  resp[CHOOSE k \in 1..Len(resp) :
         /\ resp[k].id = i
         /\ \A m \in (k + 1)..Len(resp) : resp[m].id # i]

\* _parse_ai_response: RAISE when no JSON array can be read, else one entry
\* per expected id
_parse_ai_response(resp, expected_count) ==
  IF resp.raised THEN RAISE
  ELSE Returned([k \in 1..expected_count |->
                   IF HasId(resp.items, k - 1)
                   THEN LastWithId(resp.items, k - 1)
                   ELSE DefaultScore(k - 1)])

_validate_ai_scores(parsed, expected_count) ==
  /\ Len(parsed) = expected_count
  /\ \A k \in 1..Len(parsed) : parsed[k].score # NoScore

AttemptAccepted(resp, expected_count) ==
  /\ ~_parse_ai_response(resp, expected_count).raised
  /\ _validate_ai_scores(_parse_ai_response(resp, expected_count).items,
                         expected_count)

\* a loop that makes one attempt more than max_retries
RetryAllowedOnceMore(k) == k <= max_retries + 1

\* `for attempt in range(max_retries + 1)`: attempt k is made
RetryAllowed(k) == k <= max_retries

\* the retry loop over the outcomes run[0..max_retries] of the scorer calls
RECURSIVE RetryFrom(_, _, _)
RetryFrom(run, k, expected_count) ==
  IF ~RetryAllowed(k) THEN DefaultScores(expected_count)
  ELSE IF AttemptAccepted(run[k], expected_count)
       THEN _parse_ai_response(run[k], expected_count).items
       ELSE RetryFrom(run, k + 1, expected_count)

_get_ai_scores_with_retry(run, expected_count) == RetryFrom(run, 0, expected_count)

\* what the scorer may say about one candidate in a well-formed response
Verdicts == {[score |-> 10, productName |-> NoName],
             [score |-> 90, productName |-> NoName],
             [score |-> 95, productName |-> NoName],
             [score |-> 95, productName |-> "P"]}
Absent == [score |-> NoScore, productName |-> NoName]
\* a score of 8.5: above the 8.0 of the product check of process_node, below
\* the 9.0 of the target class
CheckBandVerdict == [score |-> (ProductCheckThreshold + HighThreshold) \div 2,
                     productName |-> NoName]
\* the verdicts that differ in what crawl does with the candidate afterwards
CrawlVerdicts ==
  {v \in Verdicts : v.score > HighThreshold => v.productName # NoName}
  \cup {CheckBandVerdict}

\* the response that carries verdict f[k] for candidate id k - 1 and leaves
\* out the candidates with f[k] = Absent
ResponseOf(f, n) ==
  SelectSeq([k \in 1..n |-> ScoreItem(k - 1, f[k].score, f[k].productName)],
            LAMBDA e : e.score # NoScore)

\* ------------------------------------------------- scoring integration
\* resolution of a candidate's score_data in _process_scored_links
HasScoreId(sc, id) == \E k \in 1..Len(sc) : sc[k].id = id
FirstWithId(sc, id) ==
  sc[CHOOSE k \in 1..Len(sc) :
       /\ sc[k].id = id
       /\ \A m \in 1..(k - 1) : sc[m].id # id]

ResolveScoreData(sc, id) ==
  IF HasScoreId(sc, id) THEN FirstWithId(sc, id)
  ELSE IF id < Len(sc) THEN sc[id + 1]
  ELSE DefaultScore(id)

ScoreOf(score_data) == IF score_data.score = NoScore THEN 0 ELSE score_data.score

\* thresholds that take the boundary scores with them
ClassifyInclusive(score) ==
  IF score <= LowThreshold THEN "skip"
  ELSE IF score >= HighThreshold THEN "target"
  ELSE "explore"

\* thresholds that leave the scores of the explore class unclassified
ClassifyLosesMid(score) ==
  IF score < LowThreshold THEN "skip"
  ELSE IF score > HighThreshold THEN "target"
  ELSE "none"

\* thresholds without the target class
ClassifyNoTarget(score) ==
  IF score < LowThreshold THEN "skip" ELSE "explore"

\* thresholds without the skip class
ClassifyNeverSkips(score) ==
  IF score > HighThreshold THEN "target" ELSE "explore"

Classify(score) ==
  IF score < LowThreshold THEN "skip"
  ELSE IF score > HighThreshold THEN "target"
  ELSE "explore"

\* a child creation that resets the flag of the node of a known URL
CreateChildNodeFresh(ns, u2n, link_info, parent_node, score, product_name) ==
  LET known == u2n[link_info.url] # None
      node == IF known THEN u2n[link_info.url] ELSE Len(ns) + 1
      ns1 == IF known THEN [ns EXCEPT ![node].is_explored = FALSE]
             ELSE [Append(ns, WebsiteNode(link_info.url, link_info.relative_path,
                                          parent_node, ns))
                     EXCEPT ![parent_node].children[link_info.relative_path] = node]
      ns2 == [ns1 EXCEPT ![node].score = score]
  IN [nodes |-> IF product_name # NoName
                THEN [ns2 EXCEPT ![node].product_name = product_name] ELSE ns2,
      url_to_node |-> [u2n EXCEPT ![link_info.url] = node],
      node |-> node]

\* a child creation that never looks the URL up
CreateChildNodeAlwaysNew(ns, u2n, link_info, parent_node, score, product_name) ==
  LET node == Len(ns) + 1
      ns1 == [Append(ns, WebsiteNode(link_info.url, link_info.relative_path,
                                     parent_node, ns))
                EXCEPT ![parent_node].children[link_info.relative_path] = node,
                       ![node].score = score]
  IN [nodes |-> IF product_name # NoName
                THEN [ns1 EXCEPT ![node].product_name = product_name] ELSE ns1,
      url_to_node |-> [u2n EXCEPT ![link_info.url] = node],
      node |-> node]

\* _create_child_node: [nodes, url_to_node, node]
_create_child_node(ns, u2n, link_info, parent_node, score, product_name) ==
  LET known == u2n[link_info.url] # None
      node == IF known THEN u2n[link_info.url] ELSE Len(ns) + 1
      ns1 == IF known THEN ns
             ELSE [Append(ns, WebsiteNode(link_info.url, link_info.relative_path,
                                          parent_node, ns))
                     EXCEPT ![parent_node].children[link_info.relative_path] = node]
      u2n1 == IF known THEN u2n ELSE [u2n EXCEPT ![link_info.url] = node]
      ns2 == [ns1 EXCEPT ![node].score = score]
      ns3 == IF product_name # NoName
             THEN [ns2 EXCEPT ![node].product_name = product_name] ELSE ns2
  IN [nodes |-> ns3, url_to_node |-> u2n1, node |-> node]

Product(name, url) == [productName |-> name, url |-> url]

\* calling a function with more positional arguments than it has parameters
\* raises TypeError
RaisesTypeError(args, params) == args > params

\* the state _process_scored_links works on
LinkState(ns, u2n, os, prods, sk, pr, qu) ==
  [nodes |-> ns, url_to_node |-> u2n, open_set |-> os, products |-> prods,
   skipped_count |-> sk, product_count |-> pr, queued_count |-> qu]

\* body of the loop of _process_scored_links for one candidate
ProcessOneLink(st, link_info, sc, parent_node) ==
  LET score_data == ResolveScoreData(sc, link_info.id)
      score == ScoreOf(score_data)
      product_name == score_data.productName
      c == _create_child_node(st.nodes, st.url_to_node, link_info, parent_node,
                              score, product_name)
      class == Classify(score)
  IN [nodes |->
        IF class = "skip"
          THEN [c.nodes EXCEPT ![c.node].is_explored = TRUE]
        ELSE IF class = "target"
          THEN IF product_name # NoName
               THEN [c.nodes EXCEPT ![c.node].is_explored = TRUE,
                                    ![c.node].product_name = product_name]
               ELSE [c.nodes EXCEPT ![c.node].is_explored = TRUE]
        ELSE c.nodes,
      url_to_node |-> c.url_to_node,
      open_set |-> IF class = "explore"
                   THEN OpenSetAdd(st.open_set, c.nodes, c.node)
                   ELSE st.open_set,
      products |-> IF class = "target" /\ product_name # NoName
                   THEN Append(st.products, Product(product_name, link_info.url))
                   ELSE st.products,
      skipped_count |-> st.skipped_count + (IF class = "skip" THEN 1 ELSE 0),
      product_count |-> st.product_count + (IF class = "target" THEN 1 ELSE 0),
      queued_count |-> st.queued_count + (IF class = "explore" THEN 1 ELSE 0)]

RECURSIVE ProcessLinksFrom(_, _, _, _, _)
ProcessLinksFrom(st, ci, sc, parent_node, k) ==
  IF k > Len(ci) THEN st
  ELSE ProcessLinksFrom(ProcessOneLink(st, ci[k], sc, parent_node),
                        ci, sc, parent_node, k + 1)

_process_scored_links(ns, u2n, os, prods, ci, sc, parent_node) ==
  ProcessLinksFrom(LinkState(ns, u2n, os, prods, 0, 0, 0), ci, sc, parent_node, 1)

\* _handle_dynamic_loading as called by process_node: the call of
\* check_and_exhaust_dynamic_loading passes one argument too many, the
\* TypeError is caught by the except clause of _handle_dynamic_loading and
\* nothing else happens
DynamicLoadingFails == RaisesTypeError(CheckAndExhaustArgs, CheckAndExhaustParams)

\* ----------------------------------------------------------------- crawl
InitLocals ==
  /\ children_info = <<>>
  /\ attempt = 0
  /\ ai_calls = 0
  /\ ai_response = RAISE
  /\ scores = <<>>
  /\ idx = 0
  /\ skipped_count = 0
  /\ product_count = 0
  /\ queued_count = 0
  /\ revealed_urls = <<>>

InitDyn ==
  /\ dyn_pc = "idle"
  /\ dynamic_elements = <<>>
  /\ trig_idx = 0
  /\ current_element = FALSE
  /\ page_count = 0
  /\ click_count = 0
  /\ clicks = 0
  /\ containers = 0
  /\ trigger_zones = 0
  /\ cont_idx = 0
  /\ scroll_attempt = 0
  /\ scroll_count = 0
  /\ no_change_count = 0
  /\ scrolls = 0
  /\ links_found = 0
  /\ container_links = 0
  /\ additional_links = 0

InitCrawler(mp) ==
  /\ max_pages = mp
  /\ nodes = <<WebsiteNode(base_url, 0, None, <<>>)>>
  /\ url_to_node = [u \in Urls |-> IF u = base_url THEN 1 ELSE None]
  /\ open_set = EmptyOpenSet
  /\ products = <<>>
  /\ discovered_urls = {base_url}
  /\ pages_processed = 0
  /\ pc = "idle"
  /\ current_node = None
  /\ calls = {}
  /\ failure = {}

Init == InitCrawler(MaxPages) /\ InitLocals /\ InitDyn

\* crawl, lines 613-615
StartCrawl ==
  /\ pc = "idle"
  /\ open_set' = OpenSetAdd(open_set, nodes, 1)
  /\ pages_processed' = 0
  /\ pc' = "loop"
  /\ UNCHANGED <<max_pages, nodes, url_to_node, products, discovered_urls,
                 current_node, calls, failure, locals, dyn>>

\* loop conditions that are off by one against the budget
CrawlContinuesEarly(os, pp, mp) == ~is_empty(os) /\ pp + 1 < mp
CrawlContinuesInclusive(os, pp, mp) == ~is_empty(os) /\ pp <= mp

CrawlContinues(os, pp, mp) == ~is_empty(os) /\ pp < mp

\* a loop without the is_explored test
SkipPoppedNever(ns, n) == FALSE

\* the popped node is skipped by crawl
SkipPopped(ns, n) == ns[n].is_explored

\* while-condition false: the loop is left
Halt ==
  /\ pc = "loop"
  /\ ~CrawlContinues(open_set, pages_processed, max_pages)
  /\ pc' = "halted"
  /\ UNCHANGED <<max_pages, nodes, url_to_node, open_set, products,
                 discovered_urls, pages_processed, current_node, calls,
                 failure, locals, dyn>>

\* head of one pass of the loop: pop, then break / continue / process_node
Pop ==
  /\ pc = "loop"
  /\ CrawlContinues(open_set, pages_processed, max_pages)
  /\ LET r == OpenSetPop(open_set)
     IN /\ open_set' = r.os
        /\ current_node' = r.node
        /\ pc' = IF r.node = None THEN "halted"
                 ELSE IF SkipPopped(nodes, r.node) THEN "loop"
                 ELSE "node"
  /\ calls' = {}
  /\ failure' = {}
  /\ UNCHANGED <<max_pages, nodes, url_to_node, products, discovered_urls,
                 pages_processed, locals, dyn>>

\* process_node, lines 94-108: the popped node has a score above 8 and the
\* product check confirms it
ProductFound ==
  /\ pc = "node"
  /\ nodes[current_node].score > ProductCheckThreshold
  /\ \E detected \in Names :
       /\ nodes' = [nodes EXCEPT ![current_node].product_name = detected,
                                 ![current_node].is_explored = TRUE]
       /\ products' = Append(products, Product(detected, nodes[current_node].url))
  /\ calls' = calls \cup {"fetch", "classifier"}
  /\ pc' = "returned"
  /\ UNCHANGED <<max_pages, url_to_node, open_set, discovered_urls,
                 pages_processed, current_node, failure, locals, dyn>>

\* a process_node that forgets the flag
MarkExploredNot(ns, n) == ns

\* process_node, line 111
MarkExplored(ns, n) == [ns EXCEPT ![n].is_explored = TRUE]

\* a run of the scorer whose first call gives `first` and whose later calls,
\* if any are made, raise
FirstThenRaise(first) == [a \in 0..max_retries |-> IF a = 0 THEN first ELSE RAISE]

\* boundaries called by the product check of process_node, when it is made
ProductCheckCalls(ns, n) ==
  IF ns[n].score > ProductCheckThreshold THEN {"fetch", "classifier"} ELSE {}

\* process_node, lines 110-158, when no product was detected (or no check
\* made): the node is marked explored, its links are extracted, scored and
\* classified, and dynamic loading is tried when a target was found
ProcessPage ==
  /\ pc = "node"
  /\ \E outcome \in {"ok", "fetch_error", "parse_error"} :
     \E ci \in {extract_link_info(outcome, hrefs, discovered_urls) :
                  hrefs \in BoundedSeq(Urls, MaxLinks)} :
     LET n == Len(ci)
     IN /\ \E first \in {Returned(ResponseOf(f, n)) :
                           f \in [1..n -> CrawlVerdicts \cup {Absent}]} \cup {RAISE} :
           \E st \in {_process_scored_links(
                        MarkExplored(nodes, current_node), url_to_node,
                        open_set, products, ci,
                        _get_ai_scores_with_retry(FirstThenRaise(first), n),
                        current_node)} :
              /\ n = 0 => first = RAISE
              /\ nodes' = st.nodes
              /\ url_to_node' = st.url_to_node
              /\ open_set' = st.open_set
              /\ products' = st.products
              /\ calls' = calls \cup ProductCheckCalls(nodes, current_node)
                            \cup {"fetch"}
                            \cup (IF n > 0 THEN {"scorer"} ELSE {})
                            \cup (IF st.product_count > 0 THEN {"exhaust"} ELSE {})
              /\ failure' = failure
                   \cup (IF outcome # "ok" THEN {outcome} ELSE {})
                   \cup (IF n > 0 /\ first = RAISE THEN {"scorer"} ELSE {})
                   \cup (IF st.product_count > 0 /\ DynamicLoadingFails
                         THEN {"exhaust"} ELSE {})
  /\ pc' = "returned"
  /\ UNCHANGED <<max_pages, discovered_urls, pages_processed, current_node,
                 locals, dyn>>

\* crawl, line 629: process_node has returned
CountPage ==
  /\ pc = "returned"
  /\ pages_processed' = pages_processed + 1
  /\ pc' = "loop"
  /\ calls' = {}
  /\ failure' = {}
  /\ UNCHANGED <<max_pages, nodes, url_to_node, open_set, products,
                 discovered_urls, current_node, locals, dyn>>

\* get_results, lines 638-646: pages_processed is the number of nodes of
\* url_to_node whose is_explored flag is set
get_results(ns, u2n, prods) ==
  [products |-> prods,
   pages_processed |->
     Cardinality({u \in Urls : u2n[u] # None /\ ns[u2n[u]].is_explored}),
   total_nodes |-> Cardinality({u \in Urls : u2n[u] # None})]

Next ==
  \/ StartCrawl
  \/ Halt
  \/ Pop
  \/ ProductFound
  \/ ProcessPage
  \/ CountPage

Spec == Init /\ [][Next]_vars

\* ------------------------------------------- process_node, step by step
\* malformed and well-formed scorer responses for n candidates: per
\* candidate an element with its id, an element without id, an element
\* with id and without score, or no element; optionally one element more
\* than there are candidates
EntryShapes ==
  {"absent"} \cup ({"id"} \X Verdicts)
             \cup ({"noid"} \X {v \in Verdicts : v.score = HighThreshold})

RawEntry(shape, k) ==
  IF shape = "noscore" THEN ScoreItem(k - 1, NoScore, NoName)
  ELSE IF shape[1] = "id" THEN ScoreItem(k - 1, shape[2].score, shape[2].productName)
  ELSE ScoreItem(NoId, shape[2].score, shape[2].productName)

RawResponse(f, extra, n) ==
  SelectSeq([k \in 1..n |-> IF f[k] = "absent" THEN ScoreItem(NoId, NoScore, "absent")
                            ELSE RawEntry(f[k], k)],
            LAMBDA e : e.productName # "absent")
  \o (IF extra THEN <<ScoreItem(n, LowThreshold, NoName)>> ELSE <<>>)

\* a response in which the element of candidate m - 1 has no score
MissingScore(m, n) ==
  [k \in 1..n |-> IF k = m THEN "noscore"
                  ELSE <<"id", [score |-> LowThreshold, productName |-> NoName]>>]

RawResponses(n) ==
  {Returned(RawResponse(f, extra, n)) : f \in [1..n -> EntryShapes], extra \in BOOLEAN}
  \cup {Returned(RawResponse(MissingScore(m, n), FALSE, n)) : m \in 1..n}

\* lines 110-118
ExtractLinks ==
  /\ pc = "node"
  /\ \E outcome \in {"ok", "fetch_error", "parse_error"} :
     \E hrefs \in BoundedSeq(Urls, MaxLinks) :
       /\ outcome # "ok" => hrefs = <<>>
       /\ children_info' = extract_link_info(outcome, hrefs, discovered_urls)
       /\ failure' = failure \cup (IF outcome # "ok" THEN {outcome} ELSE {})
  /\ nodes' = MarkExplored(nodes, current_node)
  /\ calls' = calls \cup ProductCheckCalls(nodes, current_node) \cup {"fetch"}
  /\ pc' = IF children_info' = <<>> THEN "returned" ELSE "score"
  /\ attempt' = 0
  /\ ai_calls' = 0
  /\ UNCHANGED <<max_pages, url_to_node, open_set, products, discovered_urls,
                 pages_processed, current_node, ai_response, scores, idx,
                 skipped_count, product_count, queued_count, revealed_urls,
                 dyn>>

\* one pass of the loop of _get_ai_scores_with_retry
ScorerAttempt ==
  /\ pc = "score"
  /\ RetryAllowed(attempt)
  /\ \E resp \in RawResponses(Len(children_info)) \cup {RAISE} :
       /\ ai_response' = resp
       /\ IF AttemptAccepted(resp, Len(children_info))
          THEN /\ scores' = _parse_ai_response(resp, Len(children_info)).items
               /\ pc' = "links"
               /\ attempt' = attempt
          ELSE /\ scores' = scores
               /\ pc' = pc
               /\ attempt' = attempt + 1
  /\ ai_calls' = ai_calls + 1
  /\ calls' = calls \cup {"scorer"}
  /\ idx' = 1
  /\ skipped_count' = 0
  /\ product_count' = 0
  /\ queued_count' = 0
  /\ UNCHANGED <<max_pages, nodes, url_to_node, open_set, products,
                 discovered_urls, pages_processed, current_node, failure,
                 children_info, revealed_urls, dyn>>

\* lines 391-393: every attempt failed
RetriesExhausted ==
  /\ pc = "score"
  /\ ~RetryAllowed(attempt)
  /\ scores' = DefaultScores(Len(children_info))
  /\ failure' = failure \cup {"scorer"}
  /\ pc' = "links"
  /\ UNCHANGED <<max_pages, nodes, url_to_node, open_set, products,
                 discovered_urls, pages_processed, current_node, calls,
                 children_info, attempt, ai_calls, ai_response, idx,
                 skipped_count, product_count, queued_count, revealed_urls,
                 dyn>>

\* a loop that stops one candidate short
BatchDoneEarly(i, ci) == i >= Len(ci)

\* `for link_info in children_info` has run out of candidates
BatchDone(i, ci) == i > Len(ci)

\* one pass of the loop of _process_scored_links
ProcessLink ==
  /\ pc = "links"
  /\ ~BatchDone(idx, children_info)
  /\ \E st \in {ProcessOneLink(
                  LinkState(nodes, url_to_node, open_set, products,
                            skipped_count, product_count, queued_count),
                  children_info[idx], scores, current_node)} :
       /\ nodes' = st.nodes
       /\ url_to_node' = st.url_to_node
       /\ open_set' = st.open_set
       /\ products' = st.products
       /\ skipped_count' = st.skipped_count
       /\ product_count' = st.product_count
       /\ queued_count' = st.queued_count
  /\ idx' = idx + 1
  /\ UNCHANGED <<max_pages, discovered_urls, pages_processed, pc,
                 current_node, calls, failure, children_info, attempt,
                 ai_calls, ai_response, scores, revealed_urls, dyn>>

\* lines 148-158: _handle_dynamic_loading when a target was found, then
\* return. `reveals` is what the page would show to a handler that ran; the
\* call of line 248 raises TypeError before the handler starts, so lines
\* 253-304 (the second batch: scored by _get_ai_scores_with_retry and
\* classified as in _process_scored_links) are reached only if it does not.
AfterLinks ==
  /\ pc = "links"
  /\ BatchDone(idx, children_info)
  /\ IF product_count > 0
     THEN \E reveals \in BoundedSeq(LinkUrls, 1) :
            /\ revealed_urls' = reveals
            /\ calls' = calls \cup {"exhaust"}
            /\ IF DynamicLoadingFails
               THEN /\ failure' = failure \cup {"exhaust"}
                    /\ UNCHANGED <<nodes, url_to_node, open_set, products>>
               ELSE LET additional_batch == ExtractFrom(reveals, 1, 0, discovered_urls)
                        n == Len(additional_batch)
                    IN \E first \in {Returned(ResponseOf(f, n)) :
                                       f \in [1..n -> Verdicts \cup {Absent}]}
                                    \cup {RAISE} :
                       \E st \in {_process_scored_links(
                                    nodes, url_to_node, open_set, products,
                                    additional_batch,
                                    _get_ai_scores_with_retry(FirstThenRaise(first), n),
                                    current_node)} :
                         /\ nodes' = st.nodes
                         /\ url_to_node' = st.url_to_node
                         /\ open_set' = st.open_set
                         /\ products' = st.products
                         /\ failure' = failure
     ELSE UNCHANGED <<nodes, url_to_node, open_set, products, calls, failure,
                      revealed_urls>>
  /\ pc' = "returned"
  /\ UNCHANGED <<max_pages, discovered_urls, pages_processed, current_node,
                 children_info, attempt, ai_calls, ai_response, scores, idx,
                 skipped_count, product_count, queued_count, dyn>>

\* a crawl of one page, process_node followed statement by statement
InitPage == InitCrawler(1) /\ InitLocals /\ InitDyn

NextPage ==
  \/ StartCrawl
  \/ Halt
  \/ Pop
  \/ ExtractLinks
  \/ ScorerAttempt
  \/ RetriesExhausted
  \/ ProcessLink
  \/ AfterLinks
  \/ CountPage

SpecPage == InitPage /\ [][NextPage]_vars

\* ------------------------------------------------ DynamicLoadingHandler
TriggerTypes == {"Pagination", "Load More", "Tabs", "Accordions", "Expanders"}

\* every handler calls extract_link_info_from_html with five positional
\* arguments; the function takes four, so the call raises TypeError, which
\* the except clause of the calling handler catches
ExtractFromHtmlFails == RaisesTypeError(ExtractFromHtmlArgs, ExtractFromHtmlParams)

\* a scroll loop with an off-by-one cap and no test of no_change_count
ScrollContinuesLoose(sc, nc) == sc <= max_scrolls

PaginationContinues(pc_, found) == pc_ < pagination_max_pages /\ found
LoadMoreContinues(cc, found) == cc < max_clicks /\ found
ScrollContinues(sc, nc) == sc < max_scrolls /\ nc < max_no_change

\* what _check_with_ai may return as one entry of dynamic_elements: an object
\* with a known trigger type, an object that line 84 or the dispatch passes
\* over ("Other"), or a JSON value that is not an object ("Malformed")
DetectedEntries == TriggerTypes \cup {"Other", "Malformed"}

\* check_and_exhaust_dynamic_loading, lines 46-76: detection, page load
DynStart ==
  /\ dyn_pc = "idle"
  /\ \E goto_ok \in BOOLEAN :
     \E detected \in BoundedSeq(DetectedEntries, MaxTriggers) :
     \E nc \in 0..MaxContainers, nz \in 0..MaxZones :
       /\ ~goto_ok => detected = <<>> /\ nc = 0 /\ nz = 0
       /\ dynamic_elements' = detected
       /\ containers' = nc
       /\ trigger_zones' = nz
       /\ dyn_pc' = IF goto_ok THEN "triggers" ELSE "done"
  /\ trig_idx' = 1
  /\ additional_links' = 0
  /\ UNCHANGED <<crawler, locals, container_links, current_element, page_count, click_count,
                 clicks, cont_idx, scroll_attempt, scroll_count,
                 no_change_count, scrolls, links_found>>

\* lines 80-84 and _exhaust_dynamic_element, lines 242-273: dispatch on the
\* trigger type. element_info.get raises AttributeError on an entry that is
\* not an object; the except clause of line 110 catches it outside the loop,
\* so the function goes on to its return statement.
DynDispatch ==
  /\ dyn_pc = "triggers"
  /\ trig_idx <= Len(dynamic_elements)
  /\ \E target_known \in BOOLEAN, found \in BOOLEAN :
       LET t == dynamic_elements[trig_idx]
           handled == target_known /\ t \in TriggerTypes
       IN /\ dyn_pc' = IF t = "Malformed" THEN "done"
                       ELSE IF ~handled THEN "triggers"
                       ELSE IF t = "Pagination" THEN "pagination"
                       ELSE IF t = "Load More" THEN "load_more"
                       ELSE "single"
          /\ trig_idx' = IF handled \/ t = "Malformed" THEN trig_idx
                         ELSE trig_idx + 1
          /\ current_element' = (handled /\ found)
  /\ page_count' = 0
  /\ click_count' = 0
  /\ clicks' = 0
  /\ links_found' = 0
  /\ UNCHANGED <<crawler, locals, container_links, dynamic_elements, containers, trigger_zones,
                 cont_idx, scroll_attempt, scroll_count, no_change_count,
                 scrolls, additional_links>>

\* the handler of the current trigger returns `got` links
HandlerReturns(got) ==
  /\ dyn_pc' = "triggers"
  /\ trig_idx' = trig_idx + 1
  /\ additional_links' = additional_links + got

\* _handle_pagination: one pass of the while loop, or its exit
PaginationStep ==
  /\ dyn_pc = "pagination"
  /\ IF ~PaginationContinues(page_count, current_element)
     THEN /\ HandlerReturns(links_found)
          /\ UNCHANGED <<clicks, page_count, links_found, current_element>>
     ELSE \E visible \in BOOLEAN, valid_links \in 0..1, refound \in BOOLEAN :
            IF ~visible
            THEN /\ HandlerReturns(links_found)
                 /\ UNCHANGED <<clicks, page_count, links_found, current_element>>
            ELSE /\ clicks' = clicks + 1
                 /\ IF ExtractFromHtmlFails
                    THEN /\ HandlerReturns(links_found)
                         /\ UNCHANGED <<page_count, links_found, current_element>>
                    ELSE /\ page_count' = page_count + 1
                         /\ links_found' = links_found + valid_links
                         /\ IF valid_links = 0
                            THEN /\ HandlerReturns(links_found)
                                 /\ UNCHANGED current_element
                            ELSE /\ current_element' = refound
                                 /\ UNCHANGED <<dyn_pc, trig_idx, additional_links>>
  /\ UNCHANGED <<crawler, locals, container_links, dynamic_elements, click_count, containers,
                 trigger_zones, cont_idx, scroll_attempt, scroll_count,
                 no_change_count, scrolls>>

\* _handle_load_more: one pass of the while loop, or its exit
LoadMoreStep ==
  /\ dyn_pc = "load_more"
  /\ IF ~LoadMoreContinues(click_count, current_element)
     THEN /\ HandlerReturns(links_found)
          /\ UNCHANGED <<clicks, click_count, links_found, current_element>>
     ELSE \E visible \in BOOLEAN, valid_links \in 0..1, refound \in BOOLEAN :
            IF ~visible
            THEN /\ HandlerReturns(links_found)
                 /\ UNCHANGED <<clicks, click_count, links_found, current_element>>
            ELSE /\ clicks' = clicks + 1
                 /\ IF ExtractFromHtmlFails
                    THEN /\ HandlerReturns(links_found)
                         /\ UNCHANGED <<click_count, links_found, current_element>>
                    ELSE /\ click_count' = click_count + 1
                         /\ links_found' = links_found + valid_links
                         /\ IF valid_links = 0
                            THEN /\ HandlerReturns(links_found)
                                 /\ UNCHANGED current_element
                            ELSE /\ current_element' = refound
                                 /\ UNCHANGED <<dyn_pc, trig_idx, additional_links>>
  /\ UNCHANGED <<crawler, locals, container_links, dynamic_elements, page_count, containers,
                 trigger_zones, cont_idx, scroll_attempt, scroll_count,
                 no_change_count, scrolls>>

\* _handle_tabs, _handle_accordions, _handle_expanders: click once, harvest
SingleClick ==
  /\ dyn_pc = "single"
  /\ \E visible \in BOOLEAN, valid_links \in 0..1 :
       IF current_element /\ visible
       THEN /\ clicks' = clicks + 1
            /\ HandlerReturns(IF ExtractFromHtmlFails THEN 0 ELSE valid_links)
       ELSE /\ clicks' = clicks
            /\ HandlerReturns(0)
  /\ UNCHANGED <<crawler, locals, container_links, dynamic_elements, current_element,
                 page_count, click_count, containers, trigger_zones, cont_idx,
                 scroll_attempt, scroll_count, no_change_count, scrolls,
                 links_found>>

\* lines 104-106 and _exhaust_scroll_with_strategies: after the triggers,
\* the scroll containers are tried one by one
ScrollStart ==
  /\ dyn_pc = "triggers"
  /\ trig_idx > Len(dynamic_elements)
  /\ dyn_pc' = "containers"
  /\ cont_idx' = 1
  /\ scroll_attempt' = 0
  /\ links_found' = 0
  /\ UNCHANGED <<crawler, locals, container_links, dynamic_elements, trig_idx, current_element,
                 page_count, click_count, clicks, containers, trigger_zones,
                 scroll_count, no_change_count, scrolls, additional_links>>

\* lines 950-957: the next container, or on to the trigger zones
NextContainer ==
  /\ dyn_pc = "containers"
  /\ IF cont_idx <= containers /\ scroll_attempt < max_attempts
     THEN /\ dyn_pc' = "scroll"
          /\ scroll_count' = 0
          /\ no_change_count' = 0
          /\ scrolls' = 0
          /\ container_links' = 0
          /\ UNCHANGED cont_idx
     ELSE /\ dyn_pc' = IF links_found = 0 /\ trigger_zones > 0
                       THEN "zones" ELSE "scrolled"
          /\ cont_idx' = 1
          /\ UNCHANGED <<scroll_count, no_change_count, scrolls,
                         container_links>>
  /\ UNCHANGED <<crawler, locals, dynamic_elements, trig_idx, current_element,
                 page_count, click_count, clicks, containers, trigger_zones,
                 scroll_attempt, links_found, additional_links>>

\* _exhaust_container_scroll returns `got` links to lines 954-959
ContainerReturns(got) ==
  /\ dyn_pc' = "containers"
  /\ cont_idx' = cont_idx + 1
  /\ links_found' = links_found + got
  /\ scroll_attempt' = scroll_attempt + (IF got > 0 THEN got ELSE 1)

\* _exhaust_container_scroll: one pass of the while loop, or its exit
ContainerScrollStep ==
  /\ dyn_pc = "scroll"
  /\ IF ~ScrollContinues(scroll_count, no_change_count)
     THEN /\ ContainerReturns(container_links)
          /\ UNCHANGED <<scrolls, scroll_count, no_change_count, container_links>>
     ELSE \E content_changed \in BOOLEAN, at_bottom \in BOOLEAN,
             valid_links \in 0..1 :
            /\ scrolls' = scrolls + 1
            /\ IF content_changed /\ ExtractFromHtmlFails
               THEN /\ ContainerReturns(container_links)
                    /\ UNCHANGED <<scroll_count, no_change_count, container_links>>
               ELSE /\ no_change_count' = IF content_changed THEN 0
                                          ELSE no_change_count + 1
                    /\ container_links' = IF content_changed
                                          THEN container_links + valid_links
                                          ELSE container_links
                    /\ scroll_count' = scroll_count + 1
                    /\ IF at_bottom /\ no_change_count' > 0
                       THEN ContainerReturns(container_links')
                       ELSE UNCHANGED <<dyn_pc, cont_idx, links_found,
                                        scroll_attempt>>
  /\ UNCHANGED <<crawler, locals, dynamic_elements, trig_idx, current_element,
                 page_count, click_count, clicks, containers, trigger_zones,
                 additional_links>>

\* lines 961-972 and _exhaust_trigger_zone: the zones are tried when the
\* containers gave nothing
TriggerZoneStep ==
  /\ dyn_pc = "zones"
  /\ IF cont_idx <= trigger_zones /\ scroll_attempt < max_attempts
     THEN \E content_changed \in BOOLEAN, valid_links \in 0..1 :
            LET got == IF content_changed /\ ~ExtractFromHtmlFails
                       THEN valid_links ELSE 0
            IN /\ links_found' = links_found + got
               /\ scroll_attempt' = scroll_attempt + (IF got > 0 THEN got ELSE 1)
               /\ cont_idx' = cont_idx + 1
               /\ UNCHANGED dyn_pc
     ELSE /\ dyn_pc' = "scrolled"
          /\ UNCHANGED <<cont_idx, scroll_attempt, links_found>>
  /\ UNCHANGED <<crawler, locals, container_links, dynamic_elements, trig_idx,
                 current_element, page_count, click_count, clicks, containers,
                 trigger_zones, scroll_count, no_change_count, scrolls,
                 additional_links>>

\* lines 105-106 and 116: the scroll links are added and the list returned
ScrollReturns ==
  /\ dyn_pc = "scrolled"
  /\ dyn_pc' = "done"
  /\ additional_links' = additional_links + links_found
  /\ UNCHANGED <<crawler, locals, container_links, dynamic_elements, trig_idx,
                 current_element, page_count, click_count, clicks, containers,
                 trigger_zones, cont_idx, scroll_attempt, scroll_count,
                 no_change_count, scrolls, links_found>>

InitHandler ==
  /\ InitCrawler(MaxPages) /\ InitLocals /\ InitDyn

NextDyn ==
  \/ DynStart
  \/ DynDispatch
  \/ PaginationStep
  \/ LoadMoreStep
  \/ SingleClick
  \/ ScrollStart
  \/ NextContainer
  \/ ContainerScrollStep
  \/ TriggerZoneStep
  \/ ScrollReturns

SpecDyn == InitHandler /\ [][NextDyn]_vars

\* the handler is one coroutine that keeps running until it returns
FairDyn == SpecDyn /\ WF_vars(NextDyn)

\* the scheduling of crawl: a single thread that keeps running
FairSpec == Spec /\ WF_vars(Next)

\* the same thread, process_node followed statement by statement
FairPage == SpecPage /\ WF_vars(NextPage)

\* ================================================================ claims
\* C1 (dedup invariant): in every state of the crawl no two WebsiteNodes
\* have the same URL, url_to_node maps each URL that has a node to that node
\* and no other URL to any, and _create_child_node called for a URL that is
\* already known returns the node url_to_node holds and creates none.
C1_DedupInvariant ==
  /\ \A i, j \in 1..Len(nodes) : nodes[i].url = nodes[j].url => i = j
  /\ \A i \in 1..Len(nodes) : url_to_node[nodes[i].url] = i
  /\ \A u \in Urls : url_to_node[u] # None => url_to_node[u] \in 1..Len(nodes)
  /\ \A u \in LinkUrls :
       url_to_node[u] # None =>
         LET c == _create_child_node(
                    nodes, url_to_node,
                    [id |-> 0, url |-> u, relative_path |-> RelativePath(u)],
                    1, 50, NoName)
         IN c.node = url_to_node[u] /\ Len(c.nodes) = Len(nodes)

\* the same URL was discovered twice (two product records carry it) and
\* still has one node
C1_DiscoveredTwice ==
  /\ Len(products) = 2
  /\ products[1].url = products[2].url
  /\ Len(nodes) = 2

\* C2 (frontier ordering): every node of the OpenSet has exactly one heap
\* entry, and whenever crawl pops, the entry that leaves the heap carried a
\* priority (the average computed when the node was added) greater than that
\* of every entry left behind, or an equal priority and an earlier push.
C2_FrontierOrdering ==
  [][(pc = "loop" /\ open_set'.heap # open_set.heap) =>
       /\ \A e, f \in open_set.heap : e.node = f.node => e = f
       /\ {e.node : e \in open_set.heap} = open_set.node_set
       /\ \E e \in open_set.heap :
            /\ e.node = current_node'
            /\ open_set'.heap = open_set.heap \ {e}
            /\ \A f \in open_set'.heap :
                 \/ e.avg[1] * f.avg[2] > f.avg[1] * e.avg[2]
                 \/ /\ e.avg[1] * f.avg[2] = f.avg[1] * e.avg[2]
                    /\ e.counter < f.counter]_vars

\* node 3 was popped while node 2, pushed before it, is still waiting
C2_LaterPushPoppedFirst ==
  /\ pc = "node"
  /\ current_node = 3
  /\ \E f \in open_set.heap : f.node = 2 /\ f.counter = 1

\* C4 (termination): under the scheduling of a running thread crawl
\* eventually halts, whatever the extractor, the scorer and the fetches do,
\* and when it has halted the OpenSet is empty or pages_processed has reached
\* max_pages.
C4_Termination ==
  /\ <>(pc = "halted")
  /\ [](pc = "halted" =>
          (open_set.node_set = {} \/ pages_processed >= max_pages))

\* crawl halted on the budget with a node still waiting
C4_HaltedOnBudget ==
  /\ pc = "halted"
  /\ pages_processed = max_pages
  /\ open_set.node_set # {}

\* C5 (page budget): pages_processed never exceeds max_pages, and while a
\* node is in process_node the counter is below max_pages.
C5_PageBudget ==
  /\ pages_processed <= max_pages
  /\ pc \in {"node", "returned"} => pages_processed < max_pages

\* the counter has reached the budget while a node is waiting, at the loop head
C5_BudgetReached ==
  /\ pc = "loop"
  /\ pages_processed = max_pages
  /\ open_set.node_set # {}

\* C9 (idempotent re-processing): when crawl pops a node whose is_explored
\* flag is set, it is back at the loop head with pages_processed, products,
\* the nodes and url_to_node unchanged and no boundary called.
C9_ExploredPopIsNoOp ==
  [][(/\ pc = "loop"
      /\ open_set'.heap # open_set.heap
      /\ current_node' # None
      /\ nodes[current_node'].is_explored) =>
       /\ pc' = "loop"
       /\ pages_processed' = pages_processed
       /\ products' = products
       /\ nodes' = nodes
       /\ url_to_node' = url_to_node
       /\ calls' = {}]_vars

\* after the root page alone was processed an explored child was popped:
\* crawl is at the loop head again and nothing was called
C9_ExploredNodePopped ==
  /\ pc = "loop"
  /\ current_node > 1
  /\ nodes[current_node].is_explored
  /\ calls = {}
  /\ pages_processed = 1

\* C10 (a page's failure is not fatal): process_node always returns, with
\* its node marked explored, every product recorded before still in
\* products, every node still in the graph under its URL; crawl then counts
\* the page and goes back to the loop head with products and nodes as they
\* were returned.
C10_PageFailureNotFatal ==
  [][/\ pc = "node" =>
          /\ pc' = "returned"
          /\ current_node' = current_node
          /\ nodes'[current_node].is_explored
          /\ Len(products') >= Len(products)
          /\ \A k \in 1..Len(products) : products'[k] = products[k]
          /\ Len(nodes') >= Len(nodes)
          /\ \A i \in 1..Len(nodes) :
               nodes'[i].url = nodes[i].url /\ url_to_node'[nodes[i].url] = i
     /\ pc = "returned" =>
          /\ pc' = "loop"
          /\ products' = products
          /\ nodes' = nodes
          /\ url_to_node' = url_to_node]_vars

\* the fetch of the second page failed; the product found on the first page
\* is kept
C10_FailedPageKeepsProducts ==
  /\ pc = "returned"
  /\ pages_processed = 1
  /\ "fetch_error" \in failure
  /\ nodes[current_node].is_explored
  /\ Len(products) > 0

\* C3 (classification boundaries): each pass of the loop of
\* _process_scored_links counts its candidate in exactly one class: skipped
\* exactly when the resolved score is below 1.0, product exactly when it is
\* above 9.0, queued for every score from 1.0 to 9.0, both ends included. A
\* queued child is in the OpenSet afterwards and the pass does not set its
\* is_explored flag (a newly created child has it false); a skipped or
\* target child is marked explored and the OpenSet is left alone.
C3_ClassificationBoundaries ==
  [][(pc = "links" /\ idx' = idx + 1) =>
       LET link_info == children_info[idx]
           score == ScoreOf(ResolveScoreData(scores, link_info.id))
           known == url_to_node[link_info.url] # None
           child == url_to_node'[link_info.url]
       IN /\ child # None
          /\ (skipped_count' - skipped_count) + (product_count' - product_count)
               + (queued_count' - queued_count) = 1
          /\ skipped_count' = skipped_count + 1 <=> score < LowThreshold
          /\ product_count' = product_count + 1 <=> score > HighThreshold
          /\ queued_count' = queued_count + 1
               <=> (score >= LowThreshold /\ score <= HighThreshold)
          /\ (score >= LowThreshold /\ score <= HighThreshold) =>
               /\ child \in open_set'.node_set
               /\ nodes'[child].is_explored
                    = (known /\ nodes[child].is_explored)
          /\ (score < LowThreshold \/ score > HighThreshold) =>
               /\ nodes'[child].is_explored
               /\ open_set' = open_set]_vars

\* two candidates scored exactly 1.0 and exactly 9.0 were both queued and
\* neither is marked explored
C3_BothBoundariesQueued ==
  /\ pc = "links"
  /\ idx = 3
  /\ queued_count = 2
  /\ scores[1].score = LowThreshold
  /\ scores[2].score = HighThreshold
  /\ Len(nodes) = 3
  /\ ~nodes[2].is_explored
  /\ ~nodes[3].is_explored
  /\ open_set.node_set = {2, 3}

\* C6 (scorer defensiveness): every candidate is counted in exactly one
\* class, and when the scorer's response was accepted the class is that of
\* the score the response gives the candidate: the score of an element that
\* carries the candidate's id, else the score of the element at the
\* candidate's position when that element has no id, else 0.
C6_ScorerDefensiveness ==
  [][(pc = "links" /\ idx' = idx + 1 /\ "scorer" \notin failure) =>
       LET i == children_info[idx].id
           r == ai_response.items
           by_id == {k \in 1..Len(r) : r[k].id = i}
           by_position == by_id = {} /\ i < Len(r) /\ r[i + 1].id = NoId
           returned == IF by_id # {} THEN {ScoreOf(r[k]) : k \in by_id}
                       ELSE IF by_position THEN {ScoreOf(r[i + 1])}
                       ELSE {0}
           class == IF skipped_count' = skipped_count + 1 THEN "skip"
                    ELSE IF product_count' = product_count + 1 THEN "target"
                    ELSE "explore"
       IN /\ (skipped_count' - skipped_count) + (product_count' - product_count)
               + (queued_count' - queued_count) = 1
          /\ \E sc \in returned :
               class = (IF sc < LowThreshold THEN "skip"
                        ELSE IF sc > HighThreshold THEN "target"
                        ELSE "explore")]_vars

\* C7 (scorer retry bound): the scorer is called at most 4 times for a
\* batch; while the loop is still running every call made so far was
\* rejected; the loop is left either with the parsed scores of a call that
\* passed validation, each earlier call having been rejected, or after 4
\* rejected calls with {id: i, score: 0} for every candidate.
C7_RetryBound ==
  /\ ai_calls <= 4
  /\ pc = "score" =>
       /\ ai_calls = attempt
       /\ ai_calls > 0 => ~AttemptAccepted(ai_response, Len(children_info))
  /\ (pc = "links" /\ "scorer" \notin failure) =>
       /\ ai_calls = attempt + 1
       /\ AttemptAccepted(ai_response, Len(children_info))
       /\ scores = _parse_ai_response(ai_response, Len(children_info)).items
  /\ (pc = "links" /\ "scorer" \in failure) =>
       /\ ai_calls = 4
       /\ ~AttemptAccepted(ai_response, Len(children_info))
       /\ Len(scores) = Len(children_info)
       /\ \A k \in 1..Len(scores) :
            scores[k] = [id |-> k - 1, score |-> 0, productName |-> NoName]

\* four calls were made for a batch of two, the last one raised, and the
\* candidates got the default scores
C7_AllAttemptsFailed ==
  /\ pc = "links"
  /\ ai_calls = 4
  /\ ai_response = RAISE
  /\ "scorer" \in failure
  /\ Len(children_info) = 2
  /\ scores[2].score = 0

\* C8 (exhaustion termination): _handle_pagination has clicked at most 10
\* times and _handle_load_more at most 20 times whenever it runs or has
\* just returned, at most 10 scroll actions have been made on a container,
\* and a handler that is running eventually returns.
C8_ExhaustionTermination ==
  /\ [](LET running == dyn_pc \in {"pagination", "load_more", "single"}
            last == IF running THEN trig_idx ELSE trig_idx - 1
            handler == IF last \in 1..Len(dynamic_elements)
                       THEN dynamic_elements[last] ELSE "Other"
        IN /\ handler = "Pagination" => clicks <= 10
           /\ handler = "Load More" => clicks <= 20
           /\ scrolls <= 10)
  /\ (dyn_pc = "pagination") ~> (dyn_pc = "triggers")
  /\ (dyn_pc = "load_more") ~> (dyn_pc = "triggers")
  /\ (dyn_pc = "scroll") ~> (dyn_pc = "containers")

\* a pagination trigger was clicked, a container was scrolled until three
\* scrolls in a row changed nothing, and the handler has returned
C8_ClickedScrolledReturned ==
  /\ dyn_pc = "done"
  /\ dynamic_elements = <<"Pagination">>
  /\ clicks = 1
  /\ containers = 1
  /\ scrolls = max_no_change

\* C11 (trigger isolation): while check_and_exhaust_dynamic_loading works on
\* the detected triggers, whatever happens to one of them, a malformed entry
\* included, the function stays in the loop over the triggers, moves on by at
\* most one trigger and loses none of the links gathered so far; it returns
\* only when the page could not be loaded or after the infinite-scroll check.
C11_TriggerIsolation ==
  [][/\ (\/ (dyn_pc = "triggers" /\ trig_idx <= Len(dynamic_elements))
          \/ dyn_pc \in {"pagination", "load_more", "single"}) =>
            /\ dyn_pc' \in {"triggers", "pagination", "load_more", "single"}
            /\ trig_idx' \in {trig_idx, trig_idx + 1}
            /\ additional_links' >= additional_links
     /\ (dyn_pc # "done" /\ dyn_pc' = "done") =>
            dyn_pc \in {"idle", "scrolled"}]_vars

\* C12 (dedup registry as single check): every URL that an extraction pass
\* has returned as a candidate (each of them got a child node) is a member
\* of discovered_urls, and an extraction pass that meets it again does not
\* return it.
C12_RegistrySingleCheck ==
  \A i \in 2..Len(nodes) :
    /\ nodes[i].url \in discovered_urls
    /\ extract_link_info("ok", <<nodes[i].url>>, discovered_urls) = <<>>

\* C13 (no double-counted results): the products list holds at most one
\* record per URL.
C13_NoDoubleCount ==
  \A i, j \in 1..Len(products) : products[i].url = products[j].url => i = j

\* C15 (run statistics): once crawl has halted, the pages_processed value of
\* get_results equals crawl's counter of processed pages.
C15_RunStatistics ==
  pc = "halted" =>
    get_results(nodes, url_to_node, products).pages_processed = pages_processed

C16_SecondBatch ==
  [][(pc = "links" /\ pc' = "returned" /\ product_count > 0) =>
       \A k \in 1..Len(revealed_urls') :
         LET u == revealed_urls'[k]
         IN /\ url_to_node'[u] # None
            /\ url_to_node[u] = None =>
                 nodes'[url_to_node'[u]].parent = current_node]_vars

\* C17 (static batch before exhaustion): at the step on which process_node
\* invokes the dynamic-loading handler, the loop over the static candidates
\* is over: every candidate has been counted in a class and has its node,
\* every candidate scored from 1.0 to 9.0 is in the OpenSet, every other
\* one is marked explored; before that step the handler was not invoked.
C17_StaticBeforeExhaustion ==
  [][/\ ("exhaust" \notin calls /\ "exhaust" \in calls') =>
          /\ pc = "links"
          /\ idx = Len(children_info) + 1
          /\ skipped_count + product_count + queued_count = Len(children_info)
          /\ \A k \in 1..Len(children_info) :
               LET c == children_info[k]
                   score == ScoreOf(ResolveScoreData(scores, c.id))
                   child == url_to_node[c.url]
               IN /\ child # None
                  /\ (score >= LowThreshold /\ score <= HighThreshold) =>
                       child \in open_set.node_set
                  /\ (score < LowThreshold \/ score > HighThreshold) =>
                       nodes[child].is_explored
     /\ (pc' \in {"score", "links"}) => "exhaust" \notin calls']_vars

\* the handler was invoked after a batch of two, one target and one queued
\* candidate, and the queued one is in the OpenSet
C17_ExhaustAfterQueue ==
  /\ pc = "returned"
  /\ "exhaust" \in calls
  /\ Len(children_info) = 2
  /\ product_count = 1
  /\ queued_count = 1
  /\ Cardinality(open_set.node_set) = 1

\* C18 (priority formula): for the start node and for every node whose score
\* puts it in the explore class, the priority OpenSet.add stores is the mean
\* of the direct scores of the nodes on its chain that have been scored,
\* and 0 when none has. The scored nodes are the nodes that have a parent:
\* each was given its score by _create_child_node, while the start node is
\* never a candidate.
C18_PriorityFormula ==
  \A n \in 1..Len(nodes) :
    (n = 1 \/ (nodes[n].score >= LowThreshold /\ nodes[n].score <= HighThreshold)) =>
      LET RECURSIVE ScoredSum(_), ScoredCount(_)
          ScoredSum(m) ==
            IF m = None THEN 0
            ELSE (IF nodes[m].parent # None THEN nodes[m].score ELSE 0)
                 + ScoredSum(nodes[m].parent)
          ScoredCount(m) ==
            IF m = None THEN 0
            ELSE (IF nodes[m].parent # None THEN 1 ELSE 0)
                 + ScoredCount(nodes[m].parent)
      IN \A e \in OpenSetAdd(EmptyOpenSet, nodes, n).heap :
           IF ScoredCount(n) = 0 THEN e.avg[1] = 0
           ELSE e.avg[1] * ScoredCount(n) = ScoredSum(n) * e.avg[2]

\* C19 (push is a no-op on a present node, priorities are frozen): a pass of
\* the loop of _process_scored_links that calls OpenSet.add for a node
\* already in the OpenSet leaves the heap, the counter and the node set as
\* they were; an entry of the heap stays in it unchanged, whatever happens
\* to the scores, until crawl pops its node; and an entry that enters the
\* heap is for a node that was not present, carries the average of that
\* moment and takes the next value of the counter.
C19_PushNoOpPriorityFrozen ==
  [][/\ (/\ pc = "links"
         /\ idx' = idx + 1
         /\ url_to_node[children_info[idx].url] \in open_set.node_set
         /\ ScoreOf(ResolveScoreData(scores, children_info[idx].id)) >= LowThreshold
         /\ ScoreOf(ResolveScoreData(scores, children_info[idx].id)) <= HighThreshold) =>
            /\ open_set'.heap = open_set.heap
            /\ open_set'.counter = open_set.counter
            /\ open_set'.node_set = open_set.node_set
     /\ \A e \in open_set.heap :
          e \in open_set'.heap \/ (pc = "loop" /\ current_node' = e.node)
     /\ \A e \in open_set'.heap \ open_set.heap :
          /\ e.node \notin open_set.node_set
          /\ e.counter = open_set.counter
          /\ open_set'.counter = open_set.counter + 1
          /\ e.avg = get_average_score(nodes', e.node)]_vars

\* the URL of a queued child came up a second time in the batch with another
\* explore-class score: the heap still holds the one entry with the first
\* average, and the counter did not move
C19_RequeuedWithNewScore ==
  /\ pc = "links"
  /\ idx = 3
  /\ children_info[1].url = children_info[2].url
  /\ scores[1].score = LowThreshold
  /\ scores[2].score = HighThreshold
  /\ nodes[2].score = HighThreshold
  /\ open_set.heap = {[avg |-> <<LowThreshold, 1>>, counter |-> 1, node |-> 2]}
  /\ open_set.counter = 2

\* C20 (response-shape validation): an attempt of the retry loop is accepted
\* only if the response holds exactly one element per candidate; a response
\* with fewer or more elements is rejected and the loop goes on to its next
\* attempt.
C20_ResponseShape ==
  [][(pc = "score" /\ ai_calls' = ai_calls + 1) =>
       /\ pc' = "links" => Len(ai_response'.items) = Len(children_info)
       /\ (~ai_response'.raised
           /\ Len(ai_response'.items) # Len(children_info)) =>
            (pc' = "score" /\ attempt' = attempt + 1)]_vars

\* C21 (target re-verification threshold): process_node asks the
\* classification boundary about the popped node exactly when the node's
\* direct score is 9.0 or more.
C21_ReverificationThreshold ==
  [][pc = "node" =>
       ("classifier" \in calls' <=> nodes[current_node].score >= HighThreshold)]_vars

\* C22 (targetLabel invariant): a node's product_name is non-null only if the
\* node was scored above 9.0 and the scorer returned a label for it; so a
\* node acquires a label only in a step of process_node in which the scorer
\* was called.
C22_TargetLabelInvariant ==
  [][\A i \in 1..Len(nodes') :
       (/\ nodes'[i].product_name # NoName
        /\ (i > Len(nodes) \/ nodes[i].product_name = NoName)) =>
         "scorer" \in calls']_vars

\* C24 (directScore is set once): the score a node has received from a
\* scoring pass is not changed by any later scoring pass.
C24_ScoreSetOnce ==
  [][\A i \in 2..Len(nodes) : nodes'[i].score = nodes[i].score]_vars

\* C25 (frontier holds only unexplored nodes): between two iterations of
\* crawl every node present in the OpenSet has is_explored = false.
C25_FrontierUnexplored ==
  pc = "loop" => \A n \in open_set.node_set : ~nodes[n].is_explored

\* C23 (unnamed target): a candidate scored above 9.0 for which the scorer
\* returned no label is neither added to the OpenSet nor recorded in
\* products; its node is marked explored and it counts as a found target, so
\* that content exhaustion is invoked when the batch is done.
C23_UnnamedTarget ==
  [][/\ (/\ pc = "links"
         /\ idx' = idx + 1
         /\ ScoreOf(ResolveScoreData(scores, children_info[idx].id)) > HighThreshold
         /\ ResolveScoreData(scores, children_info[idx].id).productName = NoName) =>
          /\ open_set' = open_set
          /\ products' = products
          /\ nodes'[url_to_node'[children_info[idx].url]].is_explored
          /\ nodes'[url_to_node'[children_info[idx].url]].product_name
               = (IF url_to_node[children_info[idx].url] = None THEN NoName
                  ELSE nodes[url_to_node[children_info[idx].url]].product_name)
          /\ product_count' = product_count + 1
     /\ (pc = "links" /\ pc' = "returned" /\ product_count > 0) =>
          "exhaust" \in calls']_vars

\* the only candidate of a page was an unnamed target: process_node has
\* returned with nothing queued and nothing recorded, the node explored, and
\* content exhaustion invoked
C23_UnnamedTargetAlone ==
  /\ pc = "returned"
  /\ Len(children_info) = 1
  /\ ScoreOf(ResolveScoreData(scores, children_info[1].id)) > HighThreshold
  /\ ResolveScoreData(scores, children_info[1].id).productName = NoName
  /\ product_count = 1
  /\ queued_count = 0
  /\ products = <<>>
  /\ is_empty(open_set)
  /\ nodes[url_to_node[children_info[1].url]].is_explored
  /\ nodes[url_to_node[children_info[1].url]].product_name = NoName
  /\ "exhaust" \in calls

\* C26 (no unexplored node is lost): between two iterations of crawl every
\* node with is_explored = false is present in the OpenSet; hence when crawl
\* halts because the OpenSet is empty, every node of the graph is explored.
C26_NoUnexploredLost ==
  /\ pc \in {"loop", "halted"} =>
       \A i \in 1..Len(nodes) : ~nodes[i].is_explored => i \in open_set.node_set
  /\ (pc = "halted" /\ is_empty(open_set)) =>
       \A i \in 1..Len(nodes) : nodes[i].is_explored

\* crawl has halted on an empty OpenSet, within its budget: the one child
\* that had been queued was marked explored by a later entry of the batch
\* and passed over when popped
C26_HaltedAllExplored ==
  /\ pc = "halted"
  /\ is_empty(open_set)
  /\ pages_processed < max_pages
  /\ Len(nodes) > 1
  /\ open_set.counter = 2

C28_TreeInvariant ==
  [][\A i \in 2..Len(nodes') :
       /\ nodes'[i].parent \in 1..Len(nodes')
       /\ i <= Len(nodes) => nodes'[i].parent = nodes[i].parent
       /\ nodes'[i].depth = nodes'[nodes'[i].parent].depth + 1
       /\ \A j \in 1..Len(nodes') : \A p \in Paths :
            nodes'[j].children[p] = i <=> (j = nodes'[i].parent /\ p = nodes'[i].path)]_vars

\* C29 (candidate ids are unique within a batch): in every list of
\* candidates submitted to the scorer in one call no two candidates have the
\* same id; the ids of a batch of n candidates are 0 .. n - 1 in list order.
C29_BatchIdsUnique ==
  ai_calls > 0 =>
    /\ \A a \in 1..Len(children_info) : \A b \in 1..Len(children_info) :
         children_info[a].id = children_info[b].id => a = b
    /\ \A a \in 1..Len(children_info) : children_info[a].id = a - 1

\* a batch that lists the same URL twice has been submitted to the scorer:
\* the two candidates have the ids 0 and 1
C29_SameUrlTwoIds ==
  /\ ai_calls > 0
  /\ Len(children_info) = 2
  /\ children_info[1].url = children_info[2].url
  /\ children_info[1].id # children_info[2].id

\* C30 (infinite-scroll stop conditions): the scroll loop of one container
\* ends as soon as 3 consecutive iterations showed no change, or the
\* container is at its scroll bound after an iteration with no change, or 10
\* scrolls were made, and in no other case; every iteration is counted and
\* either resets the no-change counter to 0 (a metric increased) or adds 1
\* to it; the links harvested by the loop are returned.
C30_ScrollStopConditions ==
  [][dyn_pc = "scroll" =>
       /\ (scroll_count >= max_scrolls \/ no_change_count >= max_no_change) =>
            dyn_pc' # "scroll"
       /\ scrolls' = scrolls + 1 =>
            /\ scroll_count' = scroll_count + 1
            /\ no_change_count' \in {0, no_change_count + 1}
       /\ dyn_pc' # "scroll" =>
            /\ \/ scroll_count >= max_scrolls
               \/ no_change_count >= max_no_change
               \/ (scrolls' = scrolls + 1 /\ no_change_count' = no_change_count + 1)
            /\ links_found' = links_found + container_links']_vars
====
